---------------------------- MODULE Spec2Model ----------------------------
(***************************************************************************)
(* SkGlyphIDSet and SkGlyphRunBuilder of src/core/SkGlyphRun.cpp.          *)
(*                                                                         *)
(* and FunctionDeclaration::determineFinalTypes of                         *)
(* src/sksl/ir/SkSLFunctionDeclaration.h.                                  *)
(*                                                                         *)
(* Four state machines share this module.                                  *)
(*   SetSpec : one long-lived SkGlyphIDSet (glyphIDSet) driven directly by *)
(*             uniquifyGlyphIDs calls of a caller that reuses its two      *)
(*             output arrays (uniqueGlyphIDs, denseIndices).               *)
(*   ZeroUniverseSpec : SetSpec with a universe size that may be 0.        *)
(*   Spec    : one long-lived SkGlyphRunBuilder driven by prepareDrawText, *)
(*             prepareDrawPosTextH and prepareDrawPosText.                 *)
(*   TypesSpec : one determineFinalTypes call on a FunctionDeclaration.    *)
(*                                                                         *)
(* C arrays are sequences: element i of the array is seq[i + 1].           *)
(* fUniverseToUnique is kept for the glyph ids of GlyphIDs only: it is a   *)
(* function whose domain is the ids of GlyphIDs below the array's size;    *)
(* the other elements of the array are never read or written by the ids    *)
(* the model feeds in.                                                     *)
(* SkScalar is modelled as an integer; advances are even, so that the      *)
(* scaling by SK_ScalarHalf is exact.                                      *)
(***************************************************************************)
EXTENDS Integers, Sequences, FiniteSets, TLC

VARIABLES
    \* ---- SetSpec: a stand-alone SkGlyphIDSet and its caller's arrays
    glyphIDSet,        \* [fUniverseToUnique, fUniverseToUniqueSize]
    uniqueGlyphIDs,    \* the caller's SkGlyphID* uniqueGlyphIDs array
    denseIndices,      \* the caller's uint16_t* denseIndices array
    setCall,           \* the last uniquifyGlyphIDs call: arguments and results
    setCalls,          \* number of uniquifyGlyphIDs calls made so far
    \* ---- Spec: a SkGlyphRunBuilder
    skDebug,           \* whether the build defines SK_DEBUG
    builder,           \* the members of the SkGlyphRunBuilder
    call,              \* the last prepare* call: arguments and what it did
    calls,             \* number of prepare* calls made so far
    \* ---- TypesSpec: a FunctionDeclaration and one determineFinalTypes call
    typeCall           \* [fParameters, fReturnType, arguments, done, result]

setVars == <<glyphIDSet, uniqueGlyphIDs, denseIndices, setCall, setCalls>>

builderVars == <<skDebug, builder, call, calls>>

vars == <<glyphIDSet, uniqueGlyphIDs, denseIndices, setCall, setCalls,
          skDebug, builder, call, calls, typeCall>>

-----------------------------------------------------------------------------
\* Bounds of the model.
MaxLen == 3          \* longest glyph-id sequence handed to one call
MaxSetCalls == 2     \* uniquifyGlyphIDs calls in one behaviour of SetSpec
MaxRunSize == 3      \* longest text handed to one prepare* call
MaxCalls == 2        \* prepare* calls in one behaviour of Spec
MaxParams == 2       \* most parameters of a FunctionDeclaration of TypesSpec

\* Program constants.
kUndefGlyph == 0
kShrinkSize == 4096
kUint16 == 65536

\* Glyph ids the model feeds in (SkGlyphID is uint16_t) and the universe
\* sizes typefaces report: 1 and 2 make ids out of range, 5001 is above the
\* 4096 ceiling and makes the map grow and shrink.
GlyphIDs == {0, 1, 5000}
UniverseSizes == {1, 2, 5001}
\* What the model keeps in array elements that were allocated and never
\* written; no operation reads such an element before writing it.
kJunk == kUint16 - 1

SeqsUpTo(S, n) == UNION {[1..k -> S] : k \in 0..n}

\* The glyph-id sequences fed in with a universe size. With a universe of 1
\* every id but 0 is out of range, and id 1 stands for all of them.
GlyphIDSeqs(universeSize) ==
    SeqsUpTo(IF universeSize = 1 THEN GlyphIDs \ {5000} ELSE GlyphIDs, MaxLen)

Filled(n, v) == [i \in 1..n |-> v]

-----------------------------------------------------------------------------
\* SkGlyphIDSet

\* sk_bzero'ed array of `size` elements, restricted to the ids of GlyphIDs.
ZeroedMap(size) == [g \in {id \in GlyphIDs : id < size} |-> 0]

\* A default-constructed SkGlyphIDSet: no array, size 0.
NewGlyphIDSet == [fUniverseToUnique |-> ZeroedMap(0), fUniverseToUniqueSize |-> 0]

\* line 88: the map is reallocated and zeroed when the universe outgrows it.
NeedsGrowOnce(universeSize, size) == size = 0 /\ universeSize > 0
NeedsGrow(universeSize, size) == universeSize > size

GrowIfNeeded(set, universeSize) ==
    IF NeedsGrow(universeSize, set.fUniverseToUniqueSize)
    THEN [fUniverseToUnique |-> ZeroedMap(universeSize),
          fUniverseToUniqueSize |-> universeSize]
    ELSE set

\* Array accesses. A read outside the array yields 0 and a write outside it is
\* dropped; either sets the fault flag of the loop state.
InMap(map, glyphID) == glyphID \in DOMAIN map
MapRead(map, glyphID) == IF InMap(map, glyphID) THEN map[glyphID] ELSE 0
MapWriteDropped(map, glyphID, v) == map
MapWrite(map, glyphID, v) ==
    IF InMap(map, glyphID) THEN [map EXCEPT ![glyphID] = v] ELSE map
InArray(arr, i) == i + 1 \in DOMAIN arr
ArrayRead(arr, i) == IF InArray(arr, i) THEN arr[i + 1] ELSE 0
ArrayWrite(arr, i, v) == IF InArray(arr, i) THEN [arr EXCEPT ![i + 1] = v] ELSE arr

\* SkSpan{ptr, size}: the first `size` elements of an array (those it has).
Span(buffer, size) ==
    SubSeq(buffer, 1, IF size <= Len(buffer) THEN size ELSE Len(buffer))

\* lines 106-108: an id outside the universe is the undefined glyph.
RemapGlyphIDOffByOne(glyphID, universeSize) ==
    IF glyphID > universeSize THEN kUndefGlyph ELSE glyphID
RemapGlyphID(glyphID, universeSize) ==
    IF glyphID >= universeSize THEN kUndefGlyph ELSE glyphID

\* line 113: the candidate index is stale unless it is below uniqueSize and
\* the unique array holds this glyph id there (short-circuit evaluation).
IsNewGlyphNoIdCheck(uniqueIndex, uniqueSize, unique, glyphID) ==
    uniqueIndex >= uniqueSize
IsNewGlyphNoSizeCheck(uniqueIndex, uniqueSize, unique, glyphID) ==
    IF uniqueIndex + 1 \in DOMAIN unique THEN unique[uniqueIndex + 1] # glyphID ELSE TRUE
IsNewGlyph(uniqueIndex, uniqueSize, unique, glyphID) ==
    uniqueIndex >= uniqueSize \/ ArrayRead(unique, uniqueIndex) # glyphID

\* line 113: uniqueGlyphIDs[uniqueIndex] is read only when the left operand of
\* || is false.
ReadsUnique(uniqueIndex, uniqueSize) == ~(uniqueIndex >= uniqueSize)

\* line 114: SkTo<uint16_t>(uniqueSize).
ToOneBit(n) == n % 2
ToUint16(n) == n % kUint16

\* lines 103-121: one iteration of the loop over glyphIDs.
\* st = [map, unique, dense, uniqueSize, denseIndicesCursor, staleHits,
\* unwrittenReads, fault]; staleHits counts the iterations in which the
\* candidate index was below uniqueSize and was rejected by the comparison
\* with the unique array, unwrittenReads the reads of an element of the unique
\* array that this call has not written.
UniquifyStep(st, universeSize, rawGlyphID) ==
    LET glyphID == RemapGlyphID(rawGlyphID, universeSize)
        uniqueIndex == MapRead(st.map, glyphID)
        isNew == IsNewGlyph(uniqueIndex, st.uniqueSize, st.unique, glyphID)
        newIndex == ToUint16(st.uniqueSize)
        resolved == IF isNew THEN newIndex ELSE uniqueIndex
        badAccess == \/ ~InMap(st.map, glyphID)
                     \/ isNew /\ ~InArray(st.unique, st.uniqueSize)
                     \/ ~InArray(st.dense, st.denseIndicesCursor)
    IN  [map    |-> IF isNew THEN MapWrite(st.map, glyphID, newIndex) ELSE st.map,
         unique |-> IF isNew THEN ArrayWrite(st.unique, st.uniqueSize, glyphID)
                             ELSE st.unique,
         dense  |-> ArrayWrite(st.dense, st.denseIndicesCursor, resolved),
         uniqueSize |-> IF isNew THEN st.uniqueSize + 1 ELSE st.uniqueSize,
         denseIndicesCursor |-> st.denseIndicesCursor + 1,
         staleHits |-> IF isNew /\ uniqueIndex < st.uniqueSize
                       THEN st.staleHits + 1 ELSE st.staleHits,
         unwrittenReads |->
             IF ReadsUnique(uniqueIndex, st.uniqueSize) /\ uniqueIndex >= st.uniqueSize
             THEN st.unwrittenReads + 1 ELSE st.unwrittenReads,
         fault  |-> st.fault \/ badAccess]

RECURSIVE UniquifyLoop(_, _, _, _)
UniquifyLoop(st, universeSize, glyphIDs, i) ==
    IF i > Len(glyphIDs) THEN st
    ELSE UniquifyLoop(UniquifyStep(st, universeSize, glyphIDs[i]),
                      universeSize, glyphIDs, i + 1)

\* line 125: the map is cut back to 4096 elements (and zeroed) after use.
NeedsShrinkNever(size) == FALSE
NeedsShrink(size) == size > kShrinkSize

ShrinkIfNeeded(set) ==
    IF NeedsShrink(set.fUniverseToUniqueSize)
    THEN [fUniverseToUnique |-> ZeroedMap(kShrinkSize),
          fUniverseToUniqueSize |-> kShrinkSize]
    ELSE set

\* lines 81-132: SkGlyphIDSet::uniquifyGlyphIDs. The result holds the set after
\* the call, the two output arrays after the call, the length of the returned
\* span of unique ids (uniqueSize) and the number of dense indices written.
UniquifyGlyphIDs(set, universeSize, glyphIDs, unique, dense) ==
    LET grown == GrowIfNeeded(set, universeSize)
        st0 == [map |-> grown.fUniverseToUnique, unique |-> unique, dense |-> dense,
                uniqueSize |-> 0, denseIndicesCursor |-> 0, staleHits |-> 0,
                unwrittenReads |-> 0, fault |-> FALSE]
        st == UniquifyLoop(st0, universeSize, glyphIDs, 1)
    IN  [set |-> ShrinkIfNeeded([fUniverseToUnique |-> st.map,
                                 fUniverseToUniqueSize |-> grown.fUniverseToUniqueSize]),
         unique |-> st.unique,
         dense |-> st.dense,
         uniqueSize |-> st.uniqueSize,
         denseIndicesCursor |-> st.denseIndicesCursor,
         staleHits |-> st.staleHits,
         unwrittenReads |-> st.unwrittenReads,
         fault |-> st.fault]

-----------------------------------------------------------------------------
\* Collaborators of SkGlyphRunBuilder: SkPaint, SkTypeface, SkUTFN_CountUnichars
\* and the strike cache.

\* SkPaint: the text encoding, the alignment and the typeface, of which the
\* builder uses countGlyphs() alone. A typeface of 2 glyphs holds both units of
\* the texts, one of 1 glyph leaves unit 1 out of range, one of 0 glyphs has
\* no glyph at all.
\* prepareDrawText is fed every alignment, every typeface and both encodings;
\* the positioned modes read no alignment and are fed one paint per typeface.
Encodings == {"kUTF8", "kGlyphID"}
Aligns == {"kLeft", "kCenter", "kRight"}
GlyphCounts == {0, 1, 2}
Paints == [encoding : Encodings, align : Aligns, countGlyphs : GlyphCounts]
TextPaints ==
    {p \in Paints : \/ p.encoding = "kGlyphID" /\ p.countGlyphs = 2
                    \/ p.encoding = "kGlyphID" /\ p.countGlyphs = 1 /\ p.align # "kRight"
                    \/ p.encoding = "kGlyphID" /\ p.align = "kLeft"
                    \/ p.encoding = "kUTF8" /\ p.align = "kRight" /\ p.countGlyphs = 2}
PosPaints ==
    {p \in Paints : \/ p.encoding = "kGlyphID" /\ p.align = "kCenter" /\ p.countGlyphs # 1
                    \/ p.encoding = "kUTF8" /\ p.align = "kRight" /\ p.countGlyphs = 1}

\* A text is a list of code units (code points, or glyph ids under the glyph-id
\* encoding) followed by `trailing` stray bytes that complete no unit. The
\* texts of the model: the empty text, the texts that alternate units 1 and 0
\* up to length MaxRunSize, the shorter texts that repeat unit 1, and a
\* one-unit text followed by a stray byte. (Every glyph-id sequence is fed to
\* uniquifyGlyphIDs by SetSpec.)
Repeating(n) == [i \in 1..n |-> 1]
Alternating(n) == [i \in 1..n |-> i % 2]
Texts == {[units |-> u, trailing |-> 0] :
             u \in {Repeating(n) : n \in 0..(MaxRunSize - 1)}
                   \cup {Alternating(n) : n \in 0..MaxRunSize}}
           \cup {[units |-> <<1>>, trailing |-> 1]}

\* lines 28-35: convert_encoding.
ConvertEncoding(encoding) ==
    CASE encoding = "kUTF8"  -> "kUTF8_Encoding"
      [] encoding = "kUTF16" -> "kUTF16_Encoding"
      [] encoding = "kUTF32" -> "kUTF32_Encoding"
      [] OTHER               -> "kUTF32_Encoding"

\* SkUTFN_CountUnichars: the number of code points, or -1 for an ill-formed
\* text (here: one with stray trailing bytes).
CountUnichars(tfEncoding, text) ==
    IF text.trailing > 0 THEN -1 ELSE Len(text.units)

\* SkTypeface::charsToGlyphs: the typeface's character map, one glyph id per
\* code point.
CharToGlyph(c) == (c + 1) % 2
CharsToGlyphs(text, tfEncoding, runSize) ==
    [i \in 1..runSize |-> CharToGlyph(text.units[i])]

\* SkGlyphCache::getAdvances: one advance vector per glyph id asked for.
GlyphAdvance(glyphID) == <<2 * (glyphID + 1), 2 * glyphID>>
GetAdvances(glyphIDs) == [k \in DOMAIN glyphIDs |-> GlyphAdvance(glyphIDs[k])]

\* SkPoint arithmetic.
PointAdd(p, q) == <<p[1] + q[1], p[2] + q[2]>>
PointSub(p, q) == <<p[1] - q[1], p[2] - q[2]>>
ScaleHalf(v) == <<v[1] \div 2, v[2] \div 2>>

\* std::vector::resize: the old elements that fit are kept, new ones are zero.
Resize(vec, n, zero) == [i \in 1..n |-> IF i <= Len(vec) THEN vec[i] ELSE zero]

\* The arguments the callers pass beside the paint and the text.
Origin == <<10, -6>>
XPos == [i \in 1..(MaxRunSize + 1) |-> 3 * i - 2]
ConstY == 5
Pos == [i \in 1..(MaxRunSize + 1) |-> <<3 * i - 2, 10 - i>>]

-----------------------------------------------------------------------------
\* SkGlyphRunBuilder

\* A default-constructed SkGlyphRun: every span is empty.
DefaultPaint == [encoding |-> "kUTF8", align |-> "kLeft", countGlyphs |-> 0]
EmptyRun == [fUniqueGlyphIDIndices |-> <<>>, fPositions |-> <<>>,
             fTemporaryShuntGlyphIDs |-> <<>>, fUniqueGlyphIDs |-> <<>>,
             fText |-> <<>>, fClusters |-> <<>>, fRunPaint |-> DefaultPaint]

\* A newly constructed SkGlyphRunBuilder. fScratchGlyphRun holds the run of the
\* slot and runLive tells whether that object is constructed (TRUE) or
\* destroyed (FALSE); a destroyed run keeps the bytes it had.
NewBuilder ==
    [fUniqueID |-> 0,
     fMaxTotalRunSize |-> 0,
     fUniqueGlyphIDIndices |-> <<>>,
     fPositions |-> <<>>,
     fUniqueGlyphIDs |-> <<>>,
     fScratchGlyphIDs |-> <<>>,
     fScratchAdvances |-> <<>>,
     fScratchGlyphRun |-> EmptyRun,
     runLive |-> TRUE,
     fGlyphIDSet |-> NewGlyphIDSet]

\* The operations below work on w = [b, callerPaint, slotOps, advanceQueries,
\* dedups, fault]: b is the builder and callerPaint the caller's SkPaint object;
\* the other fields record what the call did so far: the destructions and
\* constructions of the slot's run, the glyph-id lists handed to getAdvances,
\* the results of uniquifyGlyphIDs, and whether an array was accessed outside
\* its bounds.
StartCall(b, paint) == [b |-> b, callerPaint |-> paint, slotOps |-> <<>>,
                        advanceQueries |-> <<>>, dedups |-> <<>>, fault |-> FALSE]

\* lines 182-200: textToGlyphIDs. Returns [w, glyphIDs].
TextToGlyphIDs(w, paint, text) ==
    IF paint.encoding # "kGlyphID"
    THEN LET tfEncoding == ConvertEncoding(paint.encoding)
             utfSize == CountUnichars(tfEncoding, text)
         IN  IF utfSize > 0
             THEN LET ids == CharsToGlyphs(text, tfEncoding, utfSize)
                  IN  [w |-> [w EXCEPT !.b.fScratchGlyphIDs = ids], glyphIDs |-> ids]
             ELSE [w |-> w, glyphIDs |-> <<>>]
    ELSE LET byteLength == 2 * Len(text.units) + text.trailing
         IN  [w |-> w, glyphIDs |-> SubSeq(text.units, 1, byteLength \div 2)]

\* lines 168-180: initialize.
NeedsBuffersOnce(totalRunSize, maxTotalRunSize) == maxTotalRunSize = 0
NeedsBuffers(totalRunSize, maxTotalRunSize) == totalRunSize > maxTotalRunSize

\* line 179: fScratchGlyphRun.~SkGlyphRun().
DestroySlotRunSkipped(w) == w
DestroySlotRun(w) ==
    [w EXCEPT !.b.runLive = FALSE, !.slotOps = Append(w.slotOps, "destroy")]

Initialize(w, totalRunSize) ==
    LET b == w.b
        grown == IF NeedsBuffers(totalRunSize, b.fMaxTotalRunSize)
                 THEN [b EXCEPT !.fMaxTotalRunSize = totalRunSize,
                                !.fUniqueGlyphIDIndices = Filled(totalRunSize, kJunk),
                                !.fPositions = Filled(totalRunSize, <<kJunk, kJunk>>),
                                !.fUniqueGlyphIDs = Filled(totalRunSize, kJunk)]
                 ELSE b
    IN  DestroySlotRun([w EXCEPT !.b = [grown EXCEPT !.fUniqueID = 0]])

\* line 210: there better be glyphs in the font if we want to uniquify.
HasGlyphsAlways(glyphUniverseSize) == TRUE
HasGlyphs(glyphUniverseSize) == glyphUniverseSize > 0

\* lines 202-217: addDenseAndUnique. Returns [w, uniqueSize], uniqueSize being
\* the length of the returned span over fUniqueGlyphIDs.
AddDenseAndUnique(w, paint, glyphIDs) ==
    IF glyphIDs # <<>> /\ HasGlyphs(paint.countGlyphs)
    THEN LET r == UniquifyGlyphIDs(w.b.fGlyphIDSet, paint.countGlyphs, glyphIDs,
                                   w.b.fUniqueGlyphIDs, w.b.fUniqueGlyphIDIndices)
         IN  [w |-> [w EXCEPT !.b.fGlyphIDSet = r.set,
                              !.b.fUniqueGlyphIDs = r.unique,
                              !.b.fUniqueGlyphIDIndices = r.dense,
                              !.dedups = Append(w.dedups,
                                 [universeSize |-> paint.countGlyphs,
                                  uniqueIds |-> Span(r.unique, r.uniqueSize),
                                  denseIndex |-> Span(r.dense, r.denseIndicesCursor)]),
                              !.fault = w.fault \/ r.fault],
              uniqueSize |-> r.uniqueSize]
    ELSE [w |-> w, uniqueSize |-> 0]

\* lines 229-231: makeGlyphRun sets the encoding and the alignment of
\* glyphRunPaint, a copy of runPaint.
NormalizedPaintKeepsAlign(runPaint) == [runPaint EXCEPT !.encoding = "kGlyphID"]
NormalizedPaint(runPaint) ==
    [runPaint EXCEPT !.encoding = "kGlyphID", !.align = "kLeft"]

MakeGlyphRun(w, runPaint, glyphIDs, positions, uniqueGlyphIDIndices, unique) ==
    IF glyphIDs # <<>>
    THEN [w EXCEPT !.b.fScratchGlyphRun =
                        [fUniqueGlyphIDIndices |-> uniqueGlyphIDIndices,
                         fPositions |-> positions,
                         fTemporaryShuntGlyphIDs |-> glyphIDs,
                         fUniqueGlyphIDs |-> unique,
                         fText |-> <<>>,
                         fClusters |-> <<>>,
                         fRunPaint |-> NormalizedPaint(runPaint)],
                  !.b.runLive = TRUE,
                  !.slotOps = Append(w.slotOps, "construct")]
    ELSE w

\* lines 262-267: the cursor walk. acc = [positions, endOfLastGlyph, fault].
AdvanceAt(advances, index) ==
    IF InArray(advances, index) THEN advances[index + 1] ELSE <<0, 0>>

RECURSIVE PositionLoop(_, _, _, _, _)
PositionLoop(acc, advances, indices, runSize, i) ==
    IF i >= runSize THEN acc
    ELSE PositionLoop(
            [positions |-> ArrayWrite(acc.positions, i, acc.endOfLastGlyph),
             endOfLastGlyph |-> PointAdd(acc.endOfLastGlyph,
                                         AdvanceAt(advances, ArrayRead(indices, i))),
             fault |-> \/ acc.fault
                       \/ ~InArray(acc.positions, i)
                       \/ ~InArray(indices, i)
                       \/ ~InArray(advances, ArrayRead(indices, i))],
            advances, indices, runSize, i + 1)

\* lines 269-277: the translation for an alignment other than left.
AlignmentShiftNoHalving(align, origin, endOfLastGlyph) ==
    IF align # "kLeft" THEN PointSub(endOfLastGlyph, origin) ELSE <<0, 0>>
AlignmentShift(align, origin, endOfLastGlyph) ==
    IF align # "kLeft"
    THEN IF align = "kCenter"
         THEN ScaleHalf(PointSub(endOfLastGlyph, origin))
         ELSE PointSub(endOfLastGlyph, origin)
    ELSE <<0, 0>>

Translate(positions, runSize, len) ==
    [i \in DOMAIN positions |->
        IF i <= runSize THEN PointSub(positions[i], len) ELSE positions[i]]

\* line 259: the unique glyph ids handed to getAdvances.
AdvanceQueryPerOccurrence(glyphIDs, unique) == glyphIDs
AdvanceQuery(glyphIDs, unique) == unique

\* lines 283-284: SkSpan{buffer, runSize}, the first runSize elements of a
\* buffer of the builder.
RunSpanWholeBuffer(buffer, runSize) == buffer
RunSpan(buffer, runSize) == Span(buffer, runSize)

\* lines 255-288: the body of drawText once addDenseAndUnique returned d.
LayOutText(d, paint, glyphIDs, origin) ==
    IF d.uniqueSize > 0
    THEN LET b == d.w.b
             runSize == Len(glyphIDs)
             unique == Span(b.fUniqueGlyphIDs, d.uniqueSize)
             query == AdvanceQuery(glyphIDs, unique)
             answered == GetAdvances(query)
             advances == [i \in 1..runSize |->
                            IF i <= Len(answered) THEN answered[i]
                            ELSE Resize(b.fScratchAdvances, runSize, <<0, 0>>)[i]]
             walked == PositionLoop([positions |-> b.fPositions,
                                     endOfLastGlyph |-> origin, fault |-> FALSE],
                                    advances, b.fUniqueGlyphIDIndices, runSize, 0)
             len == AlignmentShift(paint.align, origin, walked.endOfLastGlyph)
             positions == IF paint.align # "kLeft"
                          THEN Translate(walked.positions, runSize, len)
                          ELSE walked.positions
         IN  MakeGlyphRun(
                 [d.w EXCEPT !.b.fScratchAdvances = advances,
                             !.b.fPositions = positions,
                             !.advanceQueries = Append(d.w.advanceQueries, query),
                             !.fault = d.w.fault \/ walked.fault],
                 paint, glyphIDs,
                 RunSpan(positions, runSize),
                 RunSpan(b.fUniqueGlyphIDIndices, runSize),
                 unique)
    ELSE d.w

\* lines 246-289: drawText.
DrawText(w, paint, glyphIDs, origin) ==
    LayOutText(AddDenseAndUnique(w, paint, glyphIDs), paint, glyphIDs, origin)

\* lines 297-300 and 325-328: the deduplication of the positioned modes, which
\* only a build with SK_DEBUG computes; its result is dropped.
DebugDedup(w, debug, paint, glyphIDs) ==
    IF debug THEN AddDenseAndUnique(w, paint, glyphIDs).w ELSE w

\* lines 304-307: the positions written by drawPosTextH.
PlaceHSwapped(positions, runSize, xpos, constY) ==
    [i \in DOMAIN positions |->
        IF i <= runSize THEN <<constY, xpos[i]>> ELSE positions[i]]
PlaceH(positions, runSize, xpos, constY) ==
    [i \in DOMAIN positions |->
        IF i <= runSize THEN <<xpos[i], constY>> ELSE positions[i]]

\* lines 291-317: drawPosTextH.
DrawPosTextH(w, debug, paint, glyphIDs, xpos, constY) ==
    LET v == DebugDedup(w, debug, paint, glyphIDs)
        runSize == Len(glyphIDs)
        positions == PlaceH(v.b.fPositions, runSize, xpos, constY)
    IN  MakeGlyphRun([v EXCEPT !.b.fPositions = positions,
                               !.fault = v.fault \/ runSize > Len(v.b.fPositions)],
                     paint, glyphIDs, RunSpan(positions, runSize), <<>>, <<>>)

\* lines 319-340: drawPosText.
DrawPosText(w, debug, paint, glyphIDs, pos) ==
    MakeGlyphRun(DebugDedup(w, debug, paint, glyphIDs), paint, glyphIDs,
                 RunSpan(pos, Len(glyphIDs)), <<>>, <<>>)

\* lines 135-142: prepareDrawText. Returns [glyphIDs, w].
PrepareDrawText(b, paint, text, origin) ==
    LET t == TextToGlyphIDs(StartCall(b, paint), paint, text)
    IN  [glyphIDs |-> t.glyphIDs,
         w |-> IF t.glyphIDs # <<>>
               THEN DrawText(Initialize(t.w, Len(t.glyphIDs)), paint, t.glyphIDs, origin)
               ELSE t.w]

\* lines 144-153: prepareDrawPosTextH.
PrepareDrawPosTextH(b, debug, paint, text, xpos, constY) ==
    LET t == TextToGlyphIDs(StartCall(b, paint), paint, text)
    IN  [glyphIDs |-> t.glyphIDs,
         w |-> IF t.glyphIDs # <<>>
               THEN DrawPosTextH(Initialize(t.w, Len(t.glyphIDs)), debug, paint,
                                 t.glyphIDs, xpos, constY)
               ELSE t.w]

\* lines 155-162: prepareDrawPosText.
PrepareDrawPosText(b, debug, paint, text, pos) ==
    LET t == TextToGlyphIDs(StartCall(b, paint), paint, text)
    IN  [glyphIDs |-> t.glyphIDs,
         w |-> IF t.glyphIDs # <<>>
               THEN DrawPosText(Initialize(t.w, Len(t.glyphIDs)), debug, paint,
                                t.glyphIDs, pos)
               ELSE t.w]

\* fMaxTotalRunSize and the sizes of the builder's arrays and vectors.
BufferSizes(b) ==
    [fMaxTotalRunSize |-> b.fMaxTotalRunSize,
     fUniqueGlyphIDIndices |-> Len(b.fUniqueGlyphIDIndices),
     fPositions |-> Len(b.fPositions),
     fUniqueGlyphIDs |-> Len(b.fUniqueGlyphIDs),
     fScratchGlyphIDs |-> Len(b.fScratchGlyphIDs),
     fScratchAdvances |-> Len(b.fScratchAdvances)]

\* lines 164-166: useGlyphRun returns the address of the slot's run whatever
\* its state.
UseGlyphRun(b) == [run |-> b.fScratchGlyphRun, live |-> b.runLive]

-----------------------------------------------------------------------------
\* SkSL::FunctionDeclaration::determineFinalTypes (SkSLFunctionDeclaration.h)

\* SkSL::Type, by name. A generic type (kGeneric_Kind) has a list of
\* coercibleTypes(); the generic types of one declaration have lists of one
\* length, as those of the SkSL builtins have.
ConcreteTypes == {"int", "float", "bool"}
GenericTypes == {"$genType", "$genIType"}
Types == ConcreteTypes \cup GenericTypes
IsGeneric(type) == type \in GenericTypes
CoercibleTypes(type) ==
    CASE type = "$genType"  -> <<"float", "int">>
      [] type = "$genIType" -> <<"int", "bool">>
      [] OTHER              -> <<>>

\* Type::canCoerceTo: a type coerces to itself, and int coerces to float.
CanCoerceTo(from, to) == from = to \/ (from = "int" /\ to = "float")

\* lines 85-90: the index of the first coercible type the argument can coerce
\* to, or -1.
LastCoercible(argumentType, types) ==
    LET fit == {j \in 0..(Len(types) - 1) : CanCoerceTo(argumentType, types[j + 1])}
    IN  IF fit = {} THEN -1 ELSE CHOOSE j \in fit : \A k \in fit : k <= j
FirstCoercible(argumentType, types) ==
    LET fit == {j \in 0..(Len(types) - 1) : CanCoerceTo(argumentType, types[j + 1])}
    IN  IF fit = {} THEN -1 ELSE CHOOSE j \in fit : \A k \in fit : j <= k

\* lines 82-100: the loop over the arguments, from the i-th on.
\* st = [genericIndex, outParameterTypes, returned]; returned is TRUE once
\* line 92 has returned false.
RECURSIVE ParameterLoop(_, _, _, _)
ParameterLoop(st, fParameters, arguments, i) ==
    IF i > Len(arguments) \/ st.returned THEN st
    ELSE IF IsGeneric(fParameters[i])
         THEN LET types == CoercibleTypes(fParameters[i])
                  genericIndex == IF st.genericIndex = -1
                                  THEN FirstCoercible(arguments[i], types)
                                  ELSE st.genericIndex
              IN  IF genericIndex = -1
                  THEN [st EXCEPT !.returned = TRUE]
                  ELSE ParameterLoop(
                          [st EXCEPT !.genericIndex = genericIndex,
                                     !.outParameterTypes =
                                         Append(@, types[genericIndex + 1])],
                          fParameters, arguments, i + 1)
         ELSE ParameterLoop(
                 [st EXCEPT !.outParameterTypes = Append(@, fParameters[i])],
                 fParameters, arguments, i + 1)

\* lines 77-110: determineFinalTypes, called with an empty outParameterTypes.
\* outReturnType is "unset" when the function returns before assigning it.
DetermineFinalTypes(fParameters, fReturnType, arguments) ==
    LET st == ParameterLoop([genericIndex |-> -1, outParameterTypes |-> <<>>,
                             returned |-> FALSE], fParameters, arguments, 1)
    IN  IF st.returned
        THEN [value |-> FALSE, outParameterTypes |-> st.outParameterTypes,
              outReturnType |-> "unset"]
        ELSE IF IsGeneric(fReturnType)
             THEN IF st.genericIndex = -1
                  THEN [value |-> FALSE, outParameterTypes |-> st.outParameterTypes,
                        outReturnType |-> "unset"]
                  ELSE [value |-> TRUE, outParameterTypes |-> st.outParameterTypes,
                        outReturnType |-> CoercibleTypes(fReturnType)[st.genericIndex + 1]]
             ELSE [value |-> TRUE, outParameterTypes |-> st.outParameterTypes,
                   outReturnType |-> fReturnType]

-----------------------------------------------------------------------------
\* SetSpec: a caller of one SkGlyphIDSet

NoSetCall == [universeSize |-> 0, glyphIDs |-> <<>>, uniqueIds |-> <<>>,
              denseIndex |-> <<>>, sizeBefore |-> 0, staleHits |-> 0,
              unwrittenReads |-> 0, fault |-> FALSE]

NoCall == [op |-> "none", paint |-> DefaultPaint, paintAfter |-> DefaultPaint,
           text |-> [units |-> <<>>, trailing |-> 0],
           glyphIDs |-> <<>>, liveBefore |-> TRUE, sizesBefore |-> BufferSizes(NewBuilder),
           slotOps |-> <<>>,
           advanceQueries |-> <<>>, dedups |-> <<>>, fault |-> FALSE]

NoTypeCall == [fParameters |-> <<>>, fReturnType |-> "int", arguments |-> <<>>,
               done |-> FALSE,
               result |-> [value |-> FALSE, outParameterTypes |-> <<>>,
                           outReturnType |-> "unset"]]

\* The caller's two arrays hold MaxLen elements each (the capacity the contract
\* asks for) and are not initialised before the first call.
SetInit ==
    /\ glyphIDSet = NewGlyphIDSet
    /\ uniqueGlyphIDs = Filled(MaxLen, kJunk)
    /\ denseIndices = Filled(MaxLen, kJunk)
    /\ setCall = NoSetCall
    /\ setCalls = 0
    /\ skDebug = FALSE
    /\ builder = NewBuilder
    /\ call = NoCall
    /\ calls = 0
    /\ typeCall = NoTypeCall

\* A read outside the map is undefined behaviour. The model computes the call
\* with every such read yielding 0; EveryReadWild is the same call with every
\* such read yielding 65535, for which each glyph id looks new. A call that
\* made such a read ends in either way.
EveryReadWild(r, glyphIDs) ==
    [r EXCEPT !.unique = [i \in DOMAIN r.unique |->
                             IF i <= Len(glyphIDs) THEN kUndefGlyph ELSE r.unique[i]],
              !.dense = [i \in DOMAIN r.dense |->
                             IF i <= Len(glyphIDs) THEN i - 1 ELSE r.dense[i]],
              !.uniqueSize = Len(glyphIDs)]

Outcomes(r, glyphIDs) == IF r.fault THEN {r, EveryReadWild(r, glyphIDs)} ELSE {r}

\* One call of uniquifyGlyphIDs on the long-lived set, with the caller's arrays.
Uniquify(universeSize, glyphIDs) ==
    /\ setCalls < MaxSetCalls
    /\ \E r \in Outcomes(UniquifyGlyphIDs(glyphIDSet, universeSize, glyphIDs,
                                          uniqueGlyphIDs, denseIndices), glyphIDs) :
           /\ glyphIDSet' = r.set
           /\ uniqueGlyphIDs' = r.unique
           /\ denseIndices' = r.dense
           /\ setCall' = [universeSize |-> universeSize,
                          glyphIDs |-> glyphIDs,
                          uniqueIds |-> SubSeq(r.unique, 1, r.uniqueSize),
                          denseIndex |-> SubSeq(r.dense, 1, r.denseIndicesCursor),
                          sizeBefore |-> glyphIDSet.fUniverseToUniqueSize,
                          staleHits |-> r.staleHits,
                          unwrittenReads |-> r.unwrittenReads,
                          fault |-> r.fault]
    /\ setCalls' = setCalls + 1
    /\ UNCHANGED <<builderVars, typeCall>>

SetNext == \E universeSize \in UniverseSizes :
              \E glyphIDs \in GlyphIDSeqs(universeSize) :
                  Uniquify(universeSize, glyphIDs)

SetSpec == SetInit /\ [][SetNext]_vars

\* ZeroUniverseSpec: the caller of SetSpec with a typeface that may report no
\* glyph at all.
ZeroUniverseSizes == {0, 2}
ZeroUniverseNext ==
    \E universeSize \in ZeroUniverseSizes, glyphIDs \in SeqsUpTo({0, 1}, MaxLen) :
        Uniquify(universeSize, glyphIDs)

ZeroUniverseSpec == SetInit /\ [][ZeroUniverseNext]_vars

-----------------------------------------------------------------------------
\* TypesSpec: one call of determineFinalTypes on a FunctionDeclaration

TypesInit ==
    /\ glyphIDSet = NewGlyphIDSet
    /\ uniqueGlyphIDs = Filled(MaxLen, kJunk)
    /\ denseIndices = Filled(MaxLen, kJunk)
    /\ setCall = NoSetCall
    /\ setCalls = 0
    /\ skDebug = FALSE
    /\ builder = NewBuilder
    /\ call = NoCall
    /\ calls = 0
    /\ \E n \in 0..MaxParams :
          \E fParameters \in [1..n -> Types], arguments \in [1..n -> ConcreteTypes],
             fReturnType \in Types :
              typeCall = [fParameters |-> fParameters, fReturnType |-> fReturnType,
                          arguments |-> arguments, done |-> FALSE,
                          result |-> NoTypeCall.result]

DetermineTypes ==
    /\ ~typeCall.done
    /\ typeCall' = [typeCall EXCEPT
                       !.done = TRUE,
                       !.result = DetermineFinalTypes(typeCall.fParameters,
                                                      typeCall.fReturnType,
                                                      typeCall.arguments)]
    /\ UNCHANGED <<setVars, builderVars>>

TypesNext == DetermineTypes

TypesSpec == TypesInit /\ [][TypesNext]_vars

-----------------------------------------------------------------------------
\* Spec: a caller of one SkGlyphRunBuilder

Init ==
    /\ glyphIDSet = NewGlyphIDSet
    /\ uniqueGlyphIDs = Filled(MaxLen, kJunk)
    /\ denseIndices = Filled(MaxLen, kJunk)
    /\ setCall = NoSetCall
    /\ setCalls = 0
    /\ skDebug \in BOOLEAN
    /\ builder = NewBuilder
    /\ call = NoCall
    /\ calls = 0
    /\ typeCall = NoTypeCall

Finish(op, paint, text, r) ==
    /\ builder' = r.w.b
    /\ call' = [op |-> op, paint |-> paint, paintAfter |-> r.w.callerPaint,
                text |-> text, glyphIDs |-> r.glyphIDs,
                liveBefore |-> builder.runLive, sizesBefore |-> BufferSizes(builder),
                slotOps |-> r.w.slotOps,
                advanceQueries |-> r.w.advanceQueries, dedups |-> r.w.dedups,
                fault |-> r.w.fault]
    /\ calls' = calls + 1
    /\ UNCHANGED <<skDebug, setVars, typeCall>>

PrepareText(paint, text) ==
    /\ calls < MaxCalls
    /\ \E r \in {PrepareDrawText(builder, paint, text, Origin)} :
          Finish("prepareDrawText", paint, text, r)

PreparePositionedH(paint, text) ==
    /\ calls < MaxCalls
    /\ \E r \in {PrepareDrawPosTextH(builder, skDebug, paint, text, XPos, ConstY)} :
          Finish("prepareDrawPosTextH", paint, text, r)

PreparePositioned(paint, text) ==
    /\ calls < MaxCalls
    /\ \E r \in {PrepareDrawPosText(builder, skDebug, paint, text, Pos)} :
          Finish("prepareDrawPosText", paint, text, r)

Next ==
    \/ \E paint \in TextPaints, text \in Texts : PrepareText(paint, text)
    \/ \E paint \in PosPaints, text \in Texts : PreparePositionedH(paint, text)
    \/ \E paint \in PosPaints, text \in Texts : PreparePositioned(paint, text)

Spec == Init /\ [][Next]_vars

-----------------------------------------------------------------------------
\* Properties of uniquifyGlyphIDs, stated on the last call of SetSpec.

NoDuplicates(s) == \A i, j \in DOMAIN s : s[i] = s[j] => i = j

\* The input with every id outside the universe replaced by the undefined glyph.
Remapped(glyphIDs, universeSize) ==
    [k \in DOMAIN glyphIDs |-> IF glyphIDs[k] < universeSize THEN glyphIDs[k] ELSE 0]

OutOfRange(c, k) == c.glyphIDs[k] >= c.universeSize

\* C1 (dedup correctness): whatever earlier calls left in the set, the unique
\* ids returned have no duplicates and are no more than the input ids, one
\* dense index is written per input id, and the unique id at the dense index
\* of position k is input[k], or 0 when input[k] is outside the universe.
C1_DedupCorrect ==
    /\ NoDuplicates(setCall.uniqueIds)
    /\ Len(setCall.uniqueIds) <= Len(setCall.glyphIDs)
    /\ Len(setCall.denseIndex) = Len(setCall.glyphIDs)
    /\ \A k \in DOMAIN setCall.glyphIDs :
          /\ setCall.denseIndex[k] + 1 \in DOMAIN setCall.uniqueIds
          /\ setCall.uniqueIds[setCall.denseIndex[k] + 1]
                = (IF setCall.glyphIDs[k] < setCall.universeSize
                   THEN setCall.glyphIDs[k] ELSE 0)

\* A second call with a repeated id and an id outside the universe.
C1_Witness ==
    /\ setCalls = 2
    /\ Len(setCall.uniqueIds) < Len(setCall.glyphIDs)
    /\ Len(setCall.uniqueIds) >= 2
    /\ \E k \in DOMAIN setCall.glyphIDs : OutOfRange(setCall, k)

\* What a newly constructed SkGlyphIDSet returns for the arguments of the
\* last call, with arrays that were never written.
FreshResult ==
    LET r == UniquifyGlyphIDs(NewGlyphIDSet, setCall.universeSize, setCall.glyphIDs,
                              Filled(MaxLen, kJunk), Filled(MaxLen, kJunk))
    IN  [uniqueIds |-> SubSeq(r.unique, 1, r.uniqueSize),
         denseIndex |-> SubSeq(r.dense, 1, r.denseIndicesCursor)]

\* C2 (no-clear correctness): the set that served earlier calls returns the
\* unique ids and dense indices a newly constructed set returns for the same
\* universe size and input.
C2_SameAsFresh ==
    setCalls > 0 =>
        /\ setCall.uniqueIds = FreshResult.uniqueIds
        /\ setCall.denseIndex = FreshResult.denseIndex

\* A call in which a stale entry of the map pointed below uniqueSize and was
\* rejected by the comparison with the unique array.
C2_Witness == setCalls >= 2 /\ setCall.staleHits > 0

\* C7 (shrink bound): between calls the map never has more than 4096
\* elements, in particular after a call with a universe above 4096, and a call
\* with a universe of at most 4096 does not reduce it.
C7_ShrinkBound ==
    /\ glyphIDSet.fUniverseToUniqueSize <= 4096
    /\ (setCalls > 0 /\ setCall.universeSize <= 4096)
          => glyphIDSet.fUniverseToUniqueSize >= setCall.sizeBefore

\* A call with a universe above 4096 on a set that an earlier call grew.
C7_Witness ==
    /\ setCalls = 2
    /\ setCall.universeSize > 4096
    /\ setCall.sizeBefore > 0
    /\ glyphIDSet.fUniverseToUniqueSize = 4096

\* C8 as claimed: every input without duplicate ids comes back unchanged, with
\* dense indices 0, 1, 2, ...
C8_AsClaimed ==
    (setCalls > 0 /\ NoDuplicates(setCall.glyphIDs)) =>
        /\ setCall.uniqueIds = setCall.glyphIDs
        /\ setCall.denseIndex = [k \in DOMAIN setCall.glyphIDs |-> k - 1]

\* What the next call returns when handed the unique ids of the last call.
Rededup ==
    LET r == UniquifyGlyphIDs(glyphIDSet, setCall.universeSize, setCall.uniqueIds,
                              uniqueGlyphIDs, denseIndices)
    IN  [uniqueIds |-> SubSeq(r.unique, 1, r.uniqueSize),
         denseIndex |-> SubSeq(r.dense, 1, r.denseIndicesCursor)]

\* C8 (idempotent re-deduplication, amended): when the input, with the ids
\* outside the universe replaced by 0, has no duplicates, the unique ids are
\* that sequence and the dense indices are 0, 1, 2, ...; and deduplicating the
\* returned unique ids again returns them unchanged.
C8_Idempotent ==
    setCalls > 0 =>
        /\ NoDuplicates(Remapped(setCall.glyphIDs, setCall.universeSize)) =>
              /\ setCall.uniqueIds = Remapped(setCall.glyphIDs, setCall.universeSize)
              /\ setCall.denseIndex = [k \in DOMAIN setCall.glyphIDs |-> k - 1]
        /\ Rededup.uniqueIds = setCall.uniqueIds
        /\ Rededup.denseIndex = [k \in DOMAIN setCall.uniqueIds |-> k - 1]

\* A duplicate-free input of two or more ids, one of them outside the
\* universe, on a set whose map held stale entries for them.
C8_Witness ==
    /\ setCalls = 2
    /\ Len(setCall.glyphIDs) >= 2
    /\ NoDuplicates(Remapped(setCall.glyphIDs, setCall.universeSize))
    /\ \E k \in DOMAIN setCall.glyphIDs : OutOfRange(setCall, k)
    /\ setCall.staleHits > 0

\* C9 (out-of-range remap): an id outside the universe is reported as id 0,
\* no returned unique id is outside the universe, all occurrences of ids
\* outside the universe and of id 0 share one dense index, and the call makes
\* no access outside its arrays.
C9_OutOfRangeRemap ==
    /\ \A k \in DOMAIN setCall.glyphIDs :
          OutOfRange(setCall, k) =>
              /\ setCall.denseIndex[k] + 1 \in DOMAIN setCall.uniqueIds
              /\ setCall.uniqueIds[setCall.denseIndex[k] + 1] = 0
    /\ \A u \in DOMAIN setCall.uniqueIds :
          setCalls > 0 => setCall.uniqueIds[u] < setCall.universeSize
    /\ \A j, k \in DOMAIN setCall.glyphIDs :
          ((OutOfRange(setCall, j) \/ setCall.glyphIDs[j] = 0)
             /\ (OutOfRange(setCall, k) \/ setCall.glyphIDs[k] = 0))
          => setCall.denseIndex[j] = setCall.denseIndex[k]
    /\ ~setCall.fault

\* A call with an id outside the universe, a genuine id 0 and another id.
C9_Witness ==
    /\ setCalls = 2
    /\ \E j, k \in DOMAIN setCall.glyphIDs :
          /\ OutOfRange(setCall, j)
          /\ setCall.glyphIDs[k] = 0
    /\ Len(setCall.uniqueIds) >= 2

-----------------------------------------------------------------------------
\* Properties of SkGlyphRunBuilder, stated on the last call of Spec.

\* What useGlyphRun hands out after the last call.
CurrentRun == UseGlyphRun(builder).run
CurrentRunLive == UseGlyphRun(builder).live

Prepared == call.op # "none"
ZeroGlyphs == call.glyphIDs = <<>>
PositionedOps == {"prepareDrawPosTextH", "prepareDrawPosText"}

\* C3 (empty input) as claimed: after a call whose text gives no glyph id,
\* useGlyphRun shows no run (the slot holds no constructed run with glyphs),
\* also when an earlier call produced one, and fMaxTotalRunSize and the size
\* of every scratch buffer are what they were before the call.
C3_EmptyInputNoRun ==
    (Prepared /\ ZeroGlyphs) =>
        /\ ~CurrentRunLive \/ CurrentRun.fTemporaryShuntGlyphIDs = <<>>
        /\ BufferSizes(builder) = call.sizesBefore

LaidOut == Remapped(call.glyphIDs, call.paint.countGlyphs)

RECURSIVE CursorAfter(_, _)
CursorAfter(ids, i) ==
    IF i = 0 THEN Origin
    ELSE LET before == CursorAfter(ids, i - 1)
             advance == GlyphAdvance(ids[i])
         IN  <<before[1] + advance[1], before[2] + advance[2]>>

LeftPositions(ids) == [i \in DOMAIN ids |-> CursorAfter(ids, i - 1)]

TextLaidOut ==
    /\ call.op = "prepareDrawText"
    /\ ~ZeroGlyphs
    /\ call.paint.countGlyphs >= 1

\* C5 (advance layout): prepareDrawText with left alignment, glyph ids to draw
\* and a typeface of 1 glyph or more constructs a run whose first position is
\* the origin and whose position i is the origin plus the advances of the
\* glyph ids before i, ids outside the universe counted as id 0; the call asks
\* getAdvances once, for the unique ids of the run, which hold every glyph id
\* laid out once.
C5_AdvanceLayout ==
    (TextLaidOut /\ call.paint.align = "kLeft") =>
        /\ CurrentRunLive
        /\ CurrentRun.fPositions[1] = Origin
        /\ CurrentRun.fPositions = LeftPositions(LaidOut)
        /\ Len(call.advanceQueries) = 1
        /\ call.advanceQueries[1] = CurrentRun.fUniqueGlyphIDs
        /\ NoDuplicates(call.advanceQueries[1])
        /\ {call.advanceQueries[1][u] : u \in DOMAIN call.advanceQueries[1]}
              = {LaidOut[k] : k \in DOMAIN LaidOut}

\* A left-aligned run g0, g1, g0 of two unique ids on a builder that was used
\* before.
C5_Witness ==
    /\ calls = 2
    /\ TextLaidOut
    /\ call.paint.align = "kLeft"
    /\ Len(call.glyphIDs) = 3
    /\ call.glyphIDs[1] = call.glyphIDs[3]
    /\ Len(CurrentRun.fUniqueGlyphIDs) = 2
    /\ CurrentRun.fPositions[3] # CurrentRun.fPositions[2]

\* C6 (alignment): the positions of a run of prepareDrawText are those of the
\* left-aligned run of the same input, moved back by the total advance (the
\* cursor after the last glyph minus the origin) under right alignment, by
\* half of it under center alignment, and not moved under left alignment.
C6_Alignment ==
    TextLaidOut =>
        LET left == LeftPositions(LaidOut)
            end == CursorAfter(LaidOut, Len(LaidOut))
            total == <<end[1] - Origin[1], end[2] - Origin[2]>>
            moved(i) == <<left[i][1] - CurrentRun.fPositions[i][1],
                          left[i][2] - CurrentRun.fPositions[i][2]>>
        IN  /\ CurrentRunLive
            /\ Len(CurrentRun.fPositions) = Len(LaidOut)
            /\ \A i \in DOMAIN LaidOut :
                  CASE call.paint.align = "kLeft"   -> moved(i) = <<0, 0>>
                    [] call.paint.align = "kCenter" ->
                          <<2 * moved(i)[1], 2 * moved(i)[2]>> = total
                    [] call.paint.align = "kRight"  -> moved(i) = total

\* A center-aligned run of two glyphs or more with different advances.
C6_Witness ==
    /\ TextLaidOut
    /\ call.paint.align = "kCenter"
    /\ Len(CurrentRun.fUniqueGlyphIDs) >= 2
    /\ CurrentRun.fPositions[1] # Origin

\* C10 (GlyphRun invariants): the run constructed in the slot has one position
\* per glyph id; its dense indices, when it has any, are one per glyph id and
\* each below the number of its unique ids; its unique ids have no duplicates.
C10_RunInvariants ==
    CurrentRunLive =>
        /\ Len(CurrentRun.fPositions) = Len(CurrentRun.fTemporaryShuntGlyphIDs)
        /\ CurrentRun.fUniqueGlyphIDIndices # <<>> =>
              /\ Len(CurrentRun.fUniqueGlyphIDIndices)
                    = Len(CurrentRun.fTemporaryShuntGlyphIDs)
              /\ \A k \in DOMAIN CurrentRun.fUniqueGlyphIDIndices :
                    CurrentRun.fUniqueGlyphIDIndices[k] < Len(CurrentRun.fUniqueGlyphIDs)
        /\ NoDuplicates(CurrentRun.fUniqueGlyphIDs)

\* A run with dense indices constructed by the second call, shorter than the
\* buffers the first call left behind.
C10_Witness ==
    /\ calls = 2
    /\ "construct" \in {call.slotOps[k] : k \in DOMAIN call.slotOps}
    /\ CurrentRun.fUniqueGlyphIDIndices # <<>>
    /\ Len(CurrentRun.fUniqueGlyphIDs) < Len(CurrentRun.fTemporaryShuntGlyphIDs)
    /\ Len(CurrentRun.fTemporaryShuntGlyphIDs) < call.sizesBefore.fMaxTotalRunSize

\* What the last call did to the run of the slot, in order.
SlotOpsOfCall == call.slotOps

\* C11 (slot replacement ordering): the slot is one run; a call constructs at
\* most one run in it, and the construction comes directly after the
\* destruction, by initialize in the same call, of the run that was there, so
\* that no run is constructed over a constructed one.
C11_DestroyBeforeConstruct ==
    /\ Len(SlotOpsOfCall) <= 2
    /\ \A k \in DOMAIN SlotOpsOfCall :
          SlotOpsOfCall[k] = "construct" =>
              /\ k > 1
              /\ SlotOpsOfCall[k - 1] = "destroy"
    /\ \A k \in DOMAIN SlotOpsOfCall :
          SlotOpsOfCall[k] = "destroy" => k = 1
    /\ (Prepared /\ SlotOpsOfCall = <<>>) => CurrentRunLive = call.liveBefore

\* A second call that constructs its run in the slot where the first call had
\* constructed one.
C11_Witness ==
    /\ calls = 2
    /\ call.liveBefore
    /\ call.sizesBefore.fMaxTotalRunSize > 0
    /\ SlotOpsOfCall = <<"destroy", "construct">>
    /\ CurrentRunLive

\* C12 (positioned modes): for glyph ids to draw, prepareDrawPosTextH
\* constructs a run whose position i is (xpos[i], constY) and
\* prepareDrawPosText one whose position i is pos[i]; in both the glyph ids of
\* the run are the input ids in order and the run has no unique ids and no
\* dense indices, also when the call deduplicated.
C12_PositionedModes ==
    (call.op \in PositionedOps /\ ~ZeroGlyphs) =>
        /\ CurrentRunLive
        /\ Len(CurrentRun.fPositions) = Len(call.glyphIDs)
        /\ \A i \in DOMAIN call.glyphIDs :
              CurrentRun.fPositions[i] =
                 (IF call.op = "prepareDrawPosTextH" THEN <<XPos[i], ConstY>> ELSE Pos[i])
        /\ CurrentRun.fTemporaryShuntGlyphIDs = call.glyphIDs
        /\ CurrentRun.fUniqueGlyphIDs = <<>>
        /\ CurrentRun.fUniqueGlyphIDIndices = <<>>

\* prepareDrawPosTextH of two glyphs or more in a build that deduplicates, on
\* a builder that was used before.
C12_Witness ==
    /\ calls = 2
    /\ call.op = "prepareDrawPosTextH"
    /\ Len(call.glyphIDs) >= 2
    /\ call.dedups # <<>>
    /\ CurrentRun.fPositions[2] = <<XPos[2], ConstY>>

\* C13 (buffer growth discipline): a call never lowers fMaxTotalRunSize;
\* the dense-index, position and unique-id buffers hold fMaxTotalRunSize
\* elements each; after a call with glyph ids to draw fMaxTotalRunSize is at
\* least their number; no write or read of the call falls outside an array;
\* and the run constructed holds every glyph id of the call.
C13_BufferGrowth ==
    /\ builder.fMaxTotalRunSize >= call.sizesBefore.fMaxTotalRunSize
    /\ Len(builder.fUniqueGlyphIDIndices) = builder.fMaxTotalRunSize
    /\ Len(builder.fPositions) = builder.fMaxTotalRunSize
    /\ Len(builder.fUniqueGlyphIDs) = builder.fMaxTotalRunSize
    /\ (Prepared /\ ~ZeroGlyphs) => builder.fMaxTotalRunSize >= Len(call.glyphIDs)
    /\ ~call.fault
    /\ "construct" \in {SlotOpsOfCall[k] : k \in DOMAIN SlotOpsOfCall} =>
          /\ CurrentRun.fTemporaryShuntGlyphIDs = call.glyphIDs
          /\ Len(CurrentRun.fPositions) = Len(call.glyphIDs)

\* A second call with a longer run than the first, which makes the buffers
\* grow, and which deduplicates and lays out positions in the new buffers.
C13_Witness ==
    /\ calls = 2
    /\ call.sizesBefore.fMaxTotalRunSize > 0
    /\ builder.fMaxTotalRunSize > call.sizesBefore.fMaxTotalRunSize
    /\ Len(call.glyphIDs) = builder.fMaxTotalRunSize
    /\ call.dedups # <<>>
    /\ CurrentRunLive

\* C14 (zero universe at the set layer) as claimed: a call of
\* uniquifyGlyphIDs with universeSize 0 deduplicates nothing, it returns no
\* unique id, and accesses no array outside its bounds, on a new set as on a
\* set that served calls before.
C14_ZeroUniverseAtSet ==
    (setCalls > 0 /\ setCall.universeSize = 0) =>
        /\ setCall.uniqueIds = <<>>
        /\ ~setCall.fault

\* The distinct elements of a sequence in the order each first appears.
RECURSIVE FirstOccurrences(_)
FirstOccurrences(s) ==
    IF s = <<>> THEN <<>>
    ELSE LET front == FirstOccurrences(SubSeq(s, 1, Len(s) - 1))
             last == s[Len(s)]
         IN  IF \E i \in DOMAIN front : front[i] = last THEN front
             ELSE Append(front, last)

\* C15 (first-occurrence order): the unique ids returned are the distinct
\* input ids, those outside the universe taken as 0, in the order each first
\* appears; the dense index of position k is the rank of input[k] in that
\* list; and unless the call ended by shrinking the map, the map holds for
\* every returned unique id its dense index.
C15_FirstOccurrenceOrder ==
    setCalls > 0 =>
        LET ids == Remapped(setCall.glyphIDs, setCall.universeSize)
            first == FirstOccurrences(ids)
        IN  /\ setCall.uniqueIds = first
            /\ Len(setCall.denseIndex) = Len(ids)
            /\ \A k \in DOMAIN ids :
                  /\ setCall.denseIndex[k] + 1 \in DOMAIN first
                  /\ first[setCall.denseIndex[k] + 1] = ids[k]
            /\ setCall.universeSize <= 4096 =>
                  \A u \in DOMAIN first :
                      /\ first[u] \in DOMAIN glyphIDSet.fUniverseToUnique
                      /\ glyphIDSet.fUniverseToUnique[first[u]] = u - 1

\* A second call whose ids first appear in an order that is not the order of
\* their values, with a repeated id, on a map that held a stale entry.
C15_Witness ==
    /\ setCalls = 2
    /\ setCall.universeSize <= 4096
    /\ Len(setCall.uniqueIds) = 2
    /\ Len(setCall.glyphIDs) = 3
    /\ setCall.uniqueIds[1] > setCall.uniqueIds[2]
    /\ setCall.staleHits > 0

\* C16 (style normalization): the paint of a run constructed by any of the
\* three entry points has the glyph-id encoding and left alignment and is
\* otherwise the caller's paint, and the caller's paint is after the call what
\* it was before.
C16_StyleNormalized ==
    /\ "construct" \in {SlotOpsOfCall[k] : k \in DOMAIN SlotOpsOfCall} =>
          /\ CurrentRun.fRunPaint.encoding = "kGlyphID"
          /\ CurrentRun.fRunPaint.align = "kLeft"
          /\ CurrentRun.fRunPaint.countGlyphs = call.paint.countGlyphs
    /\ Prepared => call.paintAfter = call.paint

\* A run constructed for a paint with another encoding and another alignment.
C16_Witness ==
    /\ "construct" \in {SlotOpsOfCall[k] : k \in DOMAIN SlotOpsOfCall}
    /\ call.paint.encoding = "kUTF8"
    /\ call.paint.align = "kRight"
    /\ CurrentRun.fRunPaint # call.paint

\* C17 (slot liveness) as claimed: the run of the slot is constructed whenever
\* initialize destroys it, and it is constructed after every call, so that
\* useGlyphRun never hands out a destroyed run.
C17_SlotLiveness ==
    /\ "destroy" \in {SlotOpsOfCall[k] : k \in DOMAIN SlotOpsOfCall} => call.liveBefore
    /\ CurrentRunLive

\* C18 (map access bounds): a call with a universe of 1 or more reads and
\* writes the map only at indices below its size at that moment, reads the
\* unique array only at elements the call has written, and writes the two
\* output arrays within their bounds; and every entry the map holds
\* after the call is an index below 65536.
C18_MapAccessBounds ==
    (setCalls > 0 /\ setCall.universeSize >= 1) =>
        /\ ~setCall.fault
        /\ setCall.unwrittenReads = 0
        /\ \A g \in DOMAIN glyphIDSet.fUniverseToUnique :
              /\ g < glyphIDSet.fUniverseToUniqueSize
              /\ glyphIDSet.fUniverseToUnique[g] \in 0..65535

\* A call with a universe above 4096 after a call with a small one: the map
\* grows for it and is shrunk after it, and the call read the map at id 5000.
C18_Witness ==
    /\ setCalls = 2
    /\ setCall.sizeBefore \in 1..4096
    /\ setCall.universeSize > 4096
    /\ \E k \in DOMAIN setCall.glyphIDs : setCall.glyphIDs[k] > 4096
    /\ glyphIDSet.fUniverseToUniqueSize = 4096
    /\ ~setCall.fault

\* The smallest of three numbers.
Min3(a, b, c) == CHOOSE m \in {a, b, c} : m <= a /\ m <= b /\ m <= c

-----------------------------------------------------------------------------
\* Properties of determineFinalTypes, stated on the call of TypesSpec.

GenericParameters == {i \in DOMAIN typeCall.fParameters : IsGeneric(typeCall.fParameters[i])}
FirstGeneric == CHOOSE i \in GenericParameters : \A k \in GenericParameters : i <= k

\* The indices (from 0) of the coercible types of the first generic parameter
\* that its argument can coerce to.
Fitting ==
    LET types == CoercibleTypes(typeCall.fParameters[FirstGeneric])
    IN  {j \in 0..(Len(types) - 1) :
            CanCoerceTo(typeCall.arguments[FirstGeneric], types[j + 1])}
LowestFitting == CHOOSE j \in Fitting : \A k \in Fitting : j <= k

\* C20 (determineFinalTypes): the call returns false exactly when the
\* argument of the first generic parameter can coerce to none of that
\* parameter's coercible types, or the return type is generic and no
\* parameter is; when it returns true there is one output type per parameter,
\* in order, a parameter that is not generic keeps its type, and every
\* generic parameter and a generic return type become their coercible type
\* at one index, the lowest index that fits the first generic parameter.
C20_DetermineFinalTypes ==
    typeCall.done =>
        LET result == typeCall.result
            fParameters == typeCall.fParameters
        IN  /\ ~result.value <=>
                  \/ GenericParameters # {} /\ Fitting = {}
                  \/ IsGeneric(typeCall.fReturnType) /\ GenericParameters = {}
            /\ result.value =>
                  /\ Len(result.outParameterTypes) = Len(fParameters)
                  /\ \A i \in DOMAIN fParameters :
                        result.outParameterTypes[i] =
                           (IF IsGeneric(fParameters[i])
                            THEN CoercibleTypes(fParameters[i])[LowestFitting + 1]
                            ELSE fParameters[i])
                  /\ result.outReturnType =
                        (IF IsGeneric(typeCall.fReturnType)
                         THEN CoercibleTypes(typeCall.fReturnType)[LowestFitting + 1]
                         ELSE typeCall.fReturnType)

\* A call that returns true for two different generic parameters and a generic
\* return type, where the first argument fits two coercible types and the
\* second argument does not fit the type chosen for its parameter.
C20_Witness ==
    /\ typeCall.done
    /\ typeCall.result.value
    /\ typeCall.fParameters = <<"$genType", "$genIType">>
    /\ typeCall.arguments = <<"int", "bool">>
    /\ typeCall.fReturnType = "$genIType"
    /\ typeCall.result.outParameterTypes = <<"float", "int">>
    /\ typeCall.result.outReturnType = "int"

=============================================================================
